---- MODULE Spec2Model ----
(***************************************************************************)
(* Model of the Mock Bank Bot (src/main.py): the persisted users           *)
(* collection, the per-user context.user_data session, and the five        *)
(* handlers registered in main(), each taken as one atomic step (the       *)
(* dispatcher handles one update to completion before the next).           *)
(*                                                                         *)
(* Texts are sequences of one-character strings so that strip(), lower(),  *)
(* int() and the Regex filter are computed on the characters.              *)
(* Python optionals are sequences: None is <<>>, a value x is <<x>>.       *)
(* dict.get(k) gives None both for a missing key and for a stored None,    *)
(* and the handlers read user_data only through get, so one value stands   *)
(* for both.                                                               *)
(***************************************************************************)
EXTENDS Integers, Sequences, FiniteSets, Bags, TLC

VARIABLES users, user_data, last, reply, error, chosen, entered, inquired, tasks

vars == <<users, user_data, last, reply, error, chosen, entered, inquired, tasks>>

\* users, user_data: the MongoDB collection and context.user_data per user.
\* last, reply, error: the update just handled, the message sent back and the
\* exception the handler raised ("" when it returned).
\* chosen, entered: history of the current transaction, i.e. since the last
\* handled confirm/cancel: the action selected by button and the amount
\* accepted by handle_amount.
\* inquired: history of the balance inquiries: the outcome of the latest
\* check_balance since the last successful confirm, and whether it was
\* already a repeated one.
\* tasks: per user, the bag of handler invocations suspended at an await,
\* each named by what it does when resumed; always empty in Spec, where a
\* handler runs to completion in one step.

\* ------------------------------------------------------------------ bounds
MaxBalance == 2
MaxAmount == 2
MaxSec == 0
MaxMicro == 1

\* --------------------------------------------------------------- optionals
None == <<>>
Some(x) == <<x>>
Val(o) == o[1]

\* Python truthiness of user_data.get('confirming'): None and False are falsy
Truthy(o) == o # None /\ Val(o) = TRUE

\* ------------------------------------------------------------------- texts
UserIds == {1}

Whitespace == {" ", "\t", "\n"}

RECURSIVE LStrip(_)
LStrip(s) == IF s # <<>> /\ Head(s) \in Whitespace THEN LStrip(Tail(s)) ELSE s

RECURSIVE RStrip(_)
RStrip(s) == IF s # <<>> /\ s[Len(s)] \in Whitespace
             THEN RStrip(SubSeq(s, 1, Len(s) - 1)) ELSE s

\* str.strip()
Strip(s) == RStrip(LStrip(s))

UpperCase == <<"A","B","C","D","E","F","G","H","I","J","K","L","M",
               "N","O","P","Q","R","S","T","U","V","W","X","Y","Z">>
LowerCase == <<"a","b","c","d","e","f","g","h","i","j","k","l","m",
               "n","o","p","q","r","s","t","u","v","w","x","y","z">>

LowerChar(c) == IF \E i \in 1..26 : UpperCase[i] = c
                THEN LowerCase[CHOOSE i \in 1..26 : UpperCase[i] = c]
                ELSE c

\* str.lower()
Lower(s) == [i \in 1..Len(s) |-> LowerChar(s[i])]

Digits == <<"0","1","2","3","4","5","6","7","8","9">>
IsDigit(c) == \E i \in 1..10 : Digits[i] = c
DigitVal(c) == (CHOOSE i \in 1..10 : Digits[i] = c) - 1

\* the digit body int() accepts: digits, single underscores between digits
WellFormedDigits(b) ==
    /\ b # <<>>
    /\ \A i \in 1..Len(b) : IsDigit(b[i]) \/ b[i] = "_"
    /\ IsDigit(b[1]) /\ IsDigit(b[Len(b)])
    /\ \A i \in 1..(Len(b) - 1) : ~(b[i] = "_" /\ b[i + 1] = "_")

RECURSIVE DigitsValue(_, _)
DigitsValue(b, acc) ==
    IF b = <<>> THEN acc
    ELSE IF Head(b) = "_" THEN DigitsValue(Tail(b), acc)
    ELSE DigitsValue(Tail(b), 10 * acc + DigitVal(Head(b)))

\* int(str): Some(n), or None where Python raises ValueError
PyInt(s) ==
    LET t == Strip(s)
        signed == t # <<>> /\ Head(t) \in {"+", "-"}
        body == IF signed THEN Tail(t) ELSE t
        mag == DigitsValue(body, 0)
    IN  IF ~WellFormedDigits(body) THEN None
        ELSE IF signed /\ Head(t) = "-" THEN Some(0 - mag) ELSE Some(mag)

T_confirm == <<"c","o","n","f","i","r","m">>
T_cancel == <<"c","a","n","c","e","l">>
T_Confirm == <<"C","o","n","f","i","r","m">>
T_confirm_sp == <<" ","c","o","n","f","i","r","m">>
T_abc == <<"a","b","c">>
T_help == <<"/","h","e","l","p">>
T_start == <<"/","s","t","a","r","t">>
T_one_sp == <<" ","1">>
T_ten == <<"1","0">>

RECURSIVE Decimal(_)
Decimal(n) == IF n < 10 THEN <<Digits[n + 1]>>
              ELSE Decimal(n \div 10) \o <<Digits[(n % 10) + 1]>>

IntText(n) == IF n < 0 THEN <<"-">> \o Decimal(0 - n) ELSE Decimal(n)

\* the message texts the model sends
Texts == {IntText(n) : n \in -1..MaxAmount}
         \cup {T_confirm, T_cancel, T_Confirm, T_confirm_sp, T_abc, T_help,
               T_one_sp, T_ten}

ButtonData == {"check_balance", "deposit", "withdraw"}

\* ------------------------------------------------------------ dispatching
\* filters.COMMAND: the text starts with a bot command
IsCommand(text) == text # <<>> /\ Head(text) = "/"

\* filters.Regex('^(confirm|cancel)$'): re.search, case sensitive;
\* $ also matches before one trailing newline
RegexConfirmCancel(text) ==
    \/ text \in {T_confirm, T_cancel}
    \/ text \in {T_confirm \o <<"\n">>, T_cancel \o <<"\n">>}

\* filters.TEXT & ~filters.COMMAND & ~filters.Regex(...)  -> handle_amount
AmountFilter(text) == ~IsCommand(text) /\ ~RegexConfirmCancel(text)

\* filters.Regex(...) -> handle_confirmation (when handle_amount did not match)
ConfirmationFilter(text) == ~AmountFilter(text) /\ RegexConfirmCancel(text)

\* filters.TEXT -> handle_invalid_response (when no earlier handler matched)
InvalidFilter(text) ==
    /\ text # T_start
    /\ ~AmountFilter(text)
    /\ ~ConfirmationFilter(text)

\* --------------------------------------------------------------- timestamps
Timestamps == [sec : 0..MaxSec, micro : 0..MaxMicro]

\* str(datetime.now()): the fraction is printed only when microsecond # 0
DatetimeStr(ts) == [sec |-> ts.sec,
                    frac |-> IF ts.micro = 0 THEN None ELSE Some(ts.micro)]

\* datetime.strptime(s, '%Y-%m-%d %H:%M:%S.%f'): None where ValueError
Strptime(s) == IF s.frac = None THEN None
               ELSE Some([sec |-> s.sec, micro |-> Val(s.frac)])

\* strftime('%d/%m/%Y %H:%M:%S')
Strftime(t) == [sec |-> t.sec]

\* f"{verb} {amount} on {datetime.now()}"
TransactionStr(verb, amount, ts) ==
    [head |-> [verb |-> verb, amount |-> amount], on |-> DatetimeStr(ts)]

\* ------------------------------------------------------------------ replies
Reply(msg, amount, balance, tx) ==
    [msg |-> msg, amount |-> amount, balance |-> balance, tx |-> tx]

Say(msg) == Reply(msg, None, None, None)

NoReply == Say("")

Event(handler, u, text, data) ==
    [handler |-> handler, user |-> u, text |-> text, data |-> data]

\* ------------------------------------------------------------------ session
EmptySession == [action |-> None, amount |-> None, confirming |-> None]

Init ==
    /\ users = [u \in UserIds |-> None]
    /\ user_data = [u \in UserIds |-> EmptySession]
    /\ last = Event("", 0, <<>>, "")
    /\ reply = NoReply
    /\ error = ""
    /\ chosen = [u \in UserIds |-> None]
    /\ entered = [u \in UserIds |-> None]
    /\ inquired = [u \in UserIds |-> None]
    /\ tasks = [u \in UserIds |-> EmptyBag]

NoRecordAlways(u) == TRUE

\* if not users.find_one({"user_id": user_id})
NoRecord(u) == users[u] = None

\* start: CommandHandler("start")
start(u) ==
    /\ users' = IF NoRecord(u)
                THEN [users EXCEPT ![u] =
                        Some([balance |-> 0, last_transaction |-> None])]
                ELSE users
    /\ reply' = Say("Welcome to the Mock Bank Bot! Choose an option:")
    /\ error' = ""
    /\ last' = Event("start", u, T_start, "")
    /\ UNCHANGED <<user_data, chosen, entered, inquired, tasks>>

\* ------------------------------------------------------------------ ledger
ConfirmingNever(ud) == FALSE

\* if context.user_data.get('confirming') (handle_amount, handle_invalid_response)
Confirming(ud) == Truthy(ud.confirming)

ConfirmationStateAlways(ud) == TRUE

ConfirmationStateKeyPresent(ud) == ud.confirming # None

\* if context.user_data.get('confirming') (handle_confirmation)
ConfirmationState(ud) == Truthy(ud.confirming)

NoActionNever(ud) == FALSE

\* if action is None
NoAction(ud) == ud.action = None

NonPositiveNever(amount) == FALSE

NonPositiveAllowsZero(amount) == amount < 0

\* if amount <= 0 (handle_amount)
NonPositive(amount) == amount <= 0

InsufficientNever(amount, balance) == FALSE

InsufficientOffByOne(amount, balance) == amount > balance + 1

\* if amount > user['balance']
Insufficient(amount, balance) == amount > balance

DepositSubtracts(balance, amount) == balance - amount

DepositOverwrites(balance, amount) == amount

\* new_balance = user['balance'] + amount
DepositBalance(balance, amount) == balance + amount

WithdrawReversed(balance, amount) == amount - balance

\* new_balance = user['balance'] - amount
WithdrawBalance(balance, amount) == balance - amount

\* update.message.text.strip().lower()
ConfirmationInput(text) == Lower(Strip(text))

IsConfirmOrCancel(input) == input \in {T_confirm, T_cancel}

\* if confirmation_input == 'confirm'
IsConfirm(input) == input = T_confirm

IsCancelCapitalised(input) == input = <<"C","a","n","c","e","l">>

\* elif confirmation_input == 'cancel'
IsCancel(input) == input = T_cancel

UpdateOneBalanceOnly(u, balance, tx) ==
    [users EXCEPT ![u] = Some([balance |-> balance,
                               last_transaction |-> Val(users[u]).last_transaction])]

\* users.update_one({"user_id": u}, {"$set": {balance, last_transaction}})
UpdateOne(u, balance, tx) ==
    [users EXCEPT ![u] = Some([balance |-> balance, last_transaction |-> Some(tx)])]

\* the display text of the check_balance branch: Some(text), or None where
\* the branch raises (AttributeError on None.split, ValueError in strptime)
FormattedLastTransaction(last_transaction) ==
    IF last_transaction = None THEN None
    ELSE LET parsed == Strptime(Val(last_transaction).on)
         IN  IF parsed = None THEN None
             ELSE Some([head |-> Val(last_transaction).head,
                        on |-> Strftime(Val(parsed))])

\* --------------------------------------------------------------- handlers
\* the check_balance branch of button: the message sent and the exception
\* raised (user.get on a missing record, None.split, strptime)
CheckBalance(u) ==
    IF users[u] = None
    THEN [reply |-> NoReply, error |-> "AttributeError"]
    ELSE LET user == Val(users[u])
             shown == FormattedLastTransaction(user.last_transaction)
         IN  IF user.last_transaction = None
             THEN [reply |-> NoReply, error |-> "AttributeError"]
             ELSE IF shown = None
             THEN [reply |-> NoReply, error |-> "ValueError"]
             ELSE [reply |-> Reply("Your balance is", None,
                                   Some(user.balance), shown),
                   error |-> ""]

SelectActionResets(ud, data) ==
    [action |-> Some(data), amount |-> None, confirming |-> Some(FALSE)]

\* context.user_data['action'] = 'deposit' / 'withdraw'
SelectAction(ud, data) == [ud EXCEPT !.action = Some(data)]

\* button: CallbackQueryHandler(button)
button(u, data) ==
    /\ last' = Event("button", u, <<>>, data)
    /\ UNCHANGED <<users, entered, tasks>>
    /\ IF data = "check_balance"
       THEN /\ UNCHANGED <<user_data, chosen>>
            /\ reply' = CheckBalance(u).reply
            /\ error' = CheckBalance(u).error
            /\ inquired' = [inquired EXCEPT ![u] =
                   Some([reply |-> CheckBalance(u).reply,
                         error |-> CheckBalance(u).error,
                         repeated |-> inquired[u] # None])]
       ELSE /\ user_data' = [user_data EXCEPT ![u] = SelectAction(user_data[u], data)]
            /\ chosen' = [chosen EXCEPT ![u] = Some(data)]
            /\ reply' = Say(IF data = "deposit"
                            THEN "How much would you like to deposit?"
                            ELSE "How much would you like to withdraw?")
            /\ error' = ""
            /\ UNCHANGED inquired

\* handle_invalid_response, as called from handle_amount and as a handler
InvalidResponseReply(ud) ==
    IF Confirming(ud) THEN Say("Please respond with 'confirm' or 'cancel'.")
    ELSE NoReply

\* handle_amount: MessageHandler(TEXT & ~COMMAND & ~Regex)
handle_amount(u, text) ==
    /\ AmountFilter(text)
    /\ last' = Event("handle_amount", u, text, "")
    /\ error' = ""
    /\ UNCHANGED <<users, chosen, inquired, tasks>>
    /\ LET ud == user_data[u]
           parsed == PyInt(Strip(text))
       IN  IF Confirming(ud)
           THEN reply' = InvalidResponseReply(ud) /\ UNCHANGED <<user_data, entered>>
           ELSE IF NoAction(ud)
           THEN /\ reply' = Say("Please start the transaction again.")
                /\ UNCHANGED <<user_data, entered>>
           ELSE IF parsed = None
           THEN /\ reply' = Say("Please enter a valid number.")
                /\ UNCHANGED <<user_data, entered>>
           ELSE IF NonPositive(Val(parsed))
           THEN /\ reply' = Say("Please enter a value greater than 0.")
                /\ UNCHANGED <<user_data, entered>>
           ELSE /\ user_data' = [user_data EXCEPT ![u].amount = parsed,
                                                  ![u].confirming = Some(TRUE)]
                /\ entered' = [entered EXCEPT ![u] = parsed]
                /\ reply' = Reply("You entered", parsed, None, None)

\* the confirm branch of handle_confirmation raises TypeError when the user
\* has no record (None['balance']) or no amount is stored (int + None)
ConfirmRaises(u, ud) ==
    /\ ud.action \in {Some("deposit"), Some("withdraw")}
    /\ (users[u] = None \/ ud.amount = None)

\* handle_confirmation: MessageHandler(Regex('^(confirm|cancel)$'))
handle_confirmation(u, text, now) ==
    /\ ConfirmationFilter(text)
    /\ last' = Event("handle_confirmation", u, text, "")
    /\ UNCHANGED tasks
    /\ LET ud == user_data[u]
           input == ConfirmationInput(text)
       IN  IF ~ConfirmationState(ud)
           THEN /\ reply' = Say("Please start a transaction first.")
                /\ error' = ""
                /\ UNCHANGED <<users, user_data, chosen, entered>>
           ELSE IF IsConfirm(input)
           THEN IF ConfirmRaises(u, ud)
                THEN /\ reply' = NoReply
                     /\ error' = "TypeError"
                     /\ UNCHANGED <<users, user_data, chosen, entered>>
                ELSE /\ error' = ""
                     /\ user_data' = [user_data EXCEPT ![u].confirming = Some(FALSE)]
                     /\ chosen' = [chosen EXCEPT ![u] = None]
                     /\ entered' = [entered EXCEPT ![u] = None]
                     /\ IF ud.action = Some("deposit")
                        THEN LET amount == Val(ud.amount)
                                 new_balance ==
                                     DepositBalance(Val(users[u]).balance, amount)
                             IN  /\ new_balance <= MaxBalance
                                 /\ users' = UpdateOne(u, new_balance,
                                        TransactionStr("Deposited", amount, now))
                                 /\ reply' = Reply("Deposited", Some(amount),
                                                   Some(new_balance), None)
                        ELSE IF ud.action = Some("withdraw")
                        THEN LET amount == Val(ud.amount)
                                 balance == Val(users[u]).balance
                                 new_balance == WithdrawBalance(balance, amount)
                             IN  IF Insufficient(amount, balance)
                                 THEN /\ reply' = Say("Insufficient balance.")
                                      /\ UNCHANGED users
                                 ELSE IF amount <= 0
                                 THEN /\ reply' =
                                          Say("Please enter a value greater than 0.")
                                      /\ UNCHANGED users
                                 ELSE /\ users' = UpdateOne(u, new_balance,
                                            TransactionStr("Withdrew", amount, now))
                                      /\ reply' = Reply("Withdrew", Some(amount),
                                                        Some(new_balance), None)
                        ELSE reply' = NoReply /\ UNCHANGED users
           ELSE IF IsCancel(input)
           THEN /\ reply' = Say("Transaction cancelled.")
                /\ error' = ""
                /\ user_data' = [user_data EXCEPT ![u] =
                       [action |-> None, amount |-> None, confirming |-> Some(FALSE)]]
                /\ chosen' = [chosen EXCEPT ![u] = None]
                /\ entered' = [entered EXCEPT ![u] = None]
                /\ UNCHANGED users
           ELSE /\ reply' = Say("Please respond with 'confirm' or 'cancel'.")
                /\ error' = ""
                /\ UNCHANGED <<users, user_data, chosen, entered>>
    /\ inquired' = IF text = T_confirm /\ Truthy(user_data[u].confirming)
                                      /\ users' # users
                   THEN [inquired EXCEPT ![u] = None]
                   ELSE inquired

\* handle_invalid_response: MessageHandler(filters.TEXT)
handle_invalid_response(u, text) ==
    /\ InvalidFilter(text)
    /\ last' = Event("handle_invalid_response", u, text, "")
    /\ reply' = InvalidResponseReply(user_data[u])
    /\ error' = ""
    /\ UNCHANGED <<users, user_data, chosen, entered, inquired, tasks>>

Next ==
    \/ \E u \in UserIds : start(u)
    \/ \E u \in UserIds, data \in ButtonData : button(u, data)
    \/ \E u \in UserIds, text \in Texts : handle_amount(u, text)
    \/ \E u \in UserIds, text \in Texts, now \in Timestamps :
           handle_confirmation(u, text, now)
    \/ \E u \in UserIds, text \in Texts : handle_invalid_response(u, text)

Spec == Init /\ [][Next]_vars

\* ------------------------------------------------- interleaved handlers
\* The same handlers with updates of one user processed concurrently: a
\* handler runs from one await to the next as one step, and a suspended
\* handler is resumed at any later time. Only suspensions followed by an
\* assignment are kept in tasks; a handler that merely returns after its
\* last await is complete when that await is reached. These steps follow
\* the collection and the session only: the messages sent (last, reply,
\* error) and the history variables are those of Spec and stay as they are.
MaxTasks == 2

\* the texts sent while handlers interleave: the amounts that are accepted,
\* confirm and cancel. Any other text is answered without a change of the
\* collection or the session, which is a stuttering step here.
AsyncTexts == {IntText(n) : n \in 1..MaxAmount} \cup {T_confirm, T_cancel}

hist == <<last, reply, error, chosen, entered, inquired>>

CanSuspend(u) == BagCardinality(tasks[u]) < MaxTasks

Suspend(u, k) == tasks' = [tasks EXCEPT ![u] = @ (+) SetToBag({k})]

Resume(u, k) ==
    /\ BagIn(k, tasks[u])
    /\ tasks' = [tasks EXCEPT ![u] = @ (-) SetToBag({k})]

\* start: find_one / insert_one, then await reply_text
start_called(u) ==
    /\ NoRecord(u)
    /\ users' = [users EXCEPT ![u] =
                    Some([balance |-> 0, last_transaction |-> None])]
    /\ UNCHANGED <<user_data, hist, tasks>>

\* button up to await query.answer(): nothing read or written yet
button_called(u, data) ==
    /\ CanSuspend(u)
    /\ Suspend(u, data)
    /\ UNCHANGED <<users, user_data, hist>>

\* button from await query.answer() on
button_resumed(u, data) ==
    /\ Resume(u, data)
    /\ UNCHANGED <<users, hist>>
    /\ IF data = "check_balance"
       THEN UNCHANGED user_data
       ELSE user_data' = [user_data EXCEPT ![u] = SelectAction(user_data[u], data)]

\* handle_amount up to its await: the accepted amount is stored before
\* await reply_text, the flag is set after it; a rejected text changes
\* nothing
amount_called(u, text) ==
    /\ AmountFilter(text)
    /\ UNCHANGED <<users, hist>>
    /\ LET ud == user_data[u]
           parsed == PyInt(Strip(text))
       IN  /\ ~Confirming(ud)
           /\ ~NoAction(ud)
           /\ parsed # None
           /\ ~NonPositive(Val(parsed))
           /\ CanSuspend(u)
           /\ user_data' = [user_data EXCEPT ![u].amount = parsed]
           /\ Suspend(u, "set_confirming")

\* handle_amount after await reply_text: context.user_data['confirming'] = True
amount_resumed(u) ==
    /\ Resume(u, "set_confirming")
    /\ user_data' = [user_data EXCEPT ![u].confirming = Some(TRUE)]
    /\ UNCHANGED <<users, hist>>

\* handle_confirmation up to its await: find_one, the check and update_one
\* run without suspension; the flag is reset after await reply_text. The
\* step is taken when the flag is set and the confirm branch does not raise.
confirmation_called(u, text, now) ==
    /\ ConfirmationFilter(text)
    /\ UNCHANGED hist
    /\ LET ud == user_data[u]
           input == ConfirmationInput(text)
       IN  /\ ConfirmationState(ud)
           /\ IF IsConfirm(input)
              THEN /\ ~ConfirmRaises(u, ud)
                   /\ IF ud.action = Some("deposit")
                      THEN LET amount == Val(ud.amount)
                               new_balance ==
                                   DepositBalance(Val(users[u]).balance, amount)
                           IN  /\ new_balance <= MaxBalance
                               /\ CanSuspend(u)
                               /\ users' = UpdateOne(u, new_balance,
                                      TransactionStr("Deposited", amount, now))
                               /\ Suspend(u, "reset_confirming")
                               /\ UNCHANGED user_data
                      ELSE IF ud.action = Some("withdraw")
                      THEN LET amount == Val(ud.amount)
                               balance == Val(users[u]).balance
                               new_balance == WithdrawBalance(balance, amount)
                           IN  /\ CanSuspend(u)
                               /\ Suspend(u, "reset_confirming")
                               /\ UNCHANGED user_data
                               /\ IF Insufficient(amount, balance) \/ amount <= 0
                                  THEN UNCHANGED users
                                  ELSE users' = UpdateOne(u, new_balance,
                                           TransactionStr("Withdrew", amount, now))
                      ELSE /\ user_data' =
                                  [user_data EXCEPT ![u].confirming = Some(FALSE)]
                           /\ UNCHANGED <<users, tasks>>
              ELSE /\ IsCancel(input)
                   /\ CanSuspend(u)
                   /\ Suspend(u, "clear_session")
                   /\ UNCHANGED <<users, user_data>>

\* confirm branch after await reply_text: context.user_data['confirming'] = False
confirmation_resumed(u) ==
    /\ Resume(u, "reset_confirming")
    /\ user_data' = [user_data EXCEPT ![u].confirming = Some(FALSE)]
    /\ UNCHANGED <<users, hist>>

\* cancel branch after await reply_text: flag off, action and amount None
cancel_resumed(u) ==
    /\ Resume(u, "clear_session")
    /\ user_data' = [user_data EXCEPT ![u] =
           [action |-> None, amount |-> None, confirming |-> Some(FALSE)]]
    /\ UNCHANGED <<users, hist>>

NextAsync ==
    \/ \E u \in UserIds : start_called(u)
    \/ \E u \in UserIds, data \in ButtonData : button_called(u, data)
    \/ \E u \in UserIds, data \in ButtonData : button_resumed(u, data)
    \/ \E u \in UserIds, text \in AsyncTexts : amount_called(u, text)
    \/ \E u \in UserIds : amount_resumed(u)
    \/ \E u \in UserIds, text \in AsyncTexts, now \in Timestamps :
           confirmation_called(u, text, now)
    \/ \E u \in UserIds : confirmation_resumed(u)
    \/ \E u \in UserIds : cancel_resumed(u)

SpecAsync == Init /\ [][NextAsync]_vars

\* ---------------------------------------------------------------- claims
Balance(u) == Val(users[u]).balance

\* the session states of the confirmation dialogue
Idle(u) == ~Confirming(user_data[u]) /\ user_data[u].action = None

\* the step handles the text 'confirm' / 'cancel' while awaiting confirmation
ConfirmStep(u) ==
    /\ Confirming(user_data[u])
    /\ last' = Event("handle_confirmation", u, T_confirm, "")

CancelStep(u) ==
    /\ Confirming(user_data[u])
    /\ last' = Event("handle_confirmation", u, T_cancel, "")

\* C1: in every reachable state the persisted balance of a user is >= 0
C1_BalanceNonNegative ==
    \A u \in UserIds : users[u] # None => Balance(u) >= 0

C1_Witness ==
    \E u \in UserIds :
        /\ users[u] # None /\ Balance(u) = 0
        /\ Val(users[u]).last_transaction # None
        /\ Val(Val(users[u]).last_transaction).head.verb = "Withdrew"

\* C2: the ledger record of an existing user changes only in a step that
\* handles 'confirm' while the session awaits confirmation; every other
\* step (greet, button, any other text) leaves it unchanged
C2_LedgerChangesOnlyAtConfirm ==
    [][\A u \in UserIds :
          (users[u] # None /\ users'[u] # users[u]) => ConfirmStep(u)]_vars

C2_Witness ==
    \E u \in UserIds :
        /\ last = Event("handle_confirmation", u, T_confirm, "")
        /\ reply.msg \in {"Deposited", "Withdrew"}
        /\ users[u] # None /\ Val(users[u]).last_transaction # None

\* C3: confirming a pending deposit of d on balance b succeeds and leaves
\* the balance at exactly b + d, which is >= 0
C3_DepositAddsExactly ==
    [][\A u \in UserIds :
          (/\ ConfirmStep(u)
           /\ user_data[u].action = Some("deposit")
           /\ user_data[u].amount # None
           /\ users[u] # None)
          => /\ users'[u] # None
             /\ Val(users'[u]).balance = Balance(u) + Val(user_data[u].amount)
             /\ Val(users'[u]).balance >= 0
             /\ reply'.msg = "Deposited"
             /\ error' = ""]_vars

C3_Witness ==
    \E u \in UserIds :
        /\ last = Event("handle_confirmation", u, T_confirm, "")
        /\ reply.msg = "Deposited"
        /\ users[u] # None /\ Balance(u) > Val(reply.amount)

\* C4: confirming a pending withdraw of w <= b (w = b included) leaves the
\* balance at exactly b - w
C4_WithdrawSubtractsExactly ==
    [][\A u \in UserIds :
          (/\ ConfirmStep(u)
           /\ user_data[u].action = Some("withdraw")
           /\ user_data[u].amount # None
           /\ users[u] # None
           /\ Val(user_data[u].amount) > 0
           /\ Val(user_data[u].amount) <= Balance(u))
          => /\ users'[u] # None
             /\ Val(users'[u]).balance = Balance(u) - Val(user_data[u].amount)]_vars

C4_Witness ==
    \E u \in UserIds :
        /\ last = Event("handle_confirmation", u, T_confirm, "")
        /\ reply.msg = "Withdrew"
        /\ reply.balance = Some(0)
        /\ users[u] # None /\ Balance(u) = 0

\* C5: confirming a pending withdraw of w > b is answered with
\* "Insufficient balance." and changes neither balance nor last_transaction
C5_OverdraftRejected ==
    [][\A u \in UserIds :
          (/\ ConfirmStep(u)
           /\ user_data[u].action = Some("withdraw")
           /\ user_data[u].amount # None
           /\ users[u] # None
           /\ Val(user_data[u].amount) > Balance(u))
          => /\ reply' = Say("Insufficient balance.")
             /\ users' = users]_vars

C5_Witness ==
    \E u \in UserIds :
        /\ last = Event("handle_confirmation", u, T_confirm, "")
        /\ reply = Say("Insufficient balance.")
        /\ users[u] # None /\ Balance(u) > 0

\* C6: handling 'cancel' while awaiting confirmation leaves balance and
\* last_transaction unchanged, for either action and any amount
C6_CancelKeepsLedger ==
    [][\A u \in UserIds : CancelStep(u) => users' = users]_vars

C6_Witness ==
    \E u \in UserIds :
        /\ last = Event("handle_confirmation", u, T_cancel, "")
        /\ reply = Say("Transaction cancelled.")
        /\ users[u] # None

\* C7: whenever the confirmation flag is set, the pending action is deposit
\* or withdraw and the pending amount is set and is a positive integer
C7_ConfirmingImpliesPending ==
    \A u \in UserIds :
        Confirming(user_data[u]) =>
            /\ user_data[u].action \in {Some("deposit"), Some("withdraw")}
            /\ user_data[u].amount # None
            /\ Val(user_data[u].amount) \in Nat \ {0}

C7_Witness ==
    \E u \in UserIds :
        /\ Confirming(user_data[u])
        /\ last.handler = "handle_amount"
        /\ reply.msg = "You entered"

\* C8: after 'confirm' is handled while awaiting confirmation the session is
\* IDLE: flag off, pending action and pending amount cleared
C8_ConfirmClearsSession ==
    [][\A u \in UserIds :
          (ConfirmStep(u) /\ error' = "")
          => /\ ~Confirming(user_data'[u])
             /\ user_data'[u].action = None
             /\ user_data'[u].amount = None]_vars

\* C9: every ledger application at a confirm uses an action selected by
\* button for this transaction (since the last confirm/cancel or session
\* start) and the amount that handle_amount validated as a positive integer
\* on entering AWAITING_CONFIRMATION, the session step before the confirm
C9_LedgerUsesSelectedAndValidated ==
    [][\A u \in UserIds :
          (last'.handler = "handle_confirmation" /\ users'[u] # users[u])
          => /\ chosen[u] # None
             /\ chosen[u] = user_data[u].action
             /\ entered[u] # None
             /\ entered[u] = user_data[u].amount
             /\ Val(entered[u]) \in Nat \ {0}]_vars

TextHandlers == {"handle_amount", "handle_confirmation", "handle_invalid_response"}

\* C10 as stated: every text received while IDLE with no pending action is
\* answered "Please start the transaction again." and changes nothing
C10_IdleTextSameReply ==
    [][\A u \in UserIds :
          (Idle(u) /\ last'.handler \in TextHandlers /\ last'.user = u)
          => /\ reply' = Say("Please start the transaction again.")
             /\ user_data' = user_data
             /\ users' = users]_vars

\* C10 amended: a text received while IDLE with no pending action changes
\* neither session nor ledger; it is answered "Please start the transaction
\* again.", except that a text matched by the confirm/cancel filter is
\* answered "Please start a transaction first." and an unknown command gets
\* no reply
C10_IdleTextRejected ==
    [][\A u \in UserIds :
          (Idle(u) /\ last'.handler \in TextHandlers /\ last'.user = u)
          => /\ user_data' = user_data
             /\ users' = users
             /\ reply' = IF IsCommand(last'.text) THEN NoReply
                         ELSE IF RegexConfirmCancel(last'.text)
                         THEN Say("Please start a transaction first.")
                         ELSE Say("Please start the transaction again.")]_vars

C10_Witness ==
    \E u \in UserIds :
        /\ Idle(u)
        /\ last.handler = "handle_amount"
        /\ PyInt(last.text) # None
        /\ reply = Say("Please start the transaction again.")

\* the session awaits confirmation: user_data['confirming'] is True
AwaitingConfirmation(u) == Truthy(user_data[u].confirming)

\* C11: while awaiting confirmation, every text that equals 'confirm' after
\* strip() and lower() ('Confirm', ' confirm') is handled as a confirmation:
\* it reaches handle_confirmation and the session leaves AWAITING_CONFIRMATION
C11_ConfirmIgnoresCaseAndSpace ==
    [][\A u \in UserIds :
          (/\ AwaitingConfirmation(u)
           /\ users[u] # None
           /\ last'.handler \in TextHandlers /\ last'.user = u
           /\ Lower(Strip(last'.text)) = T_confirm)
          => /\ last'.handler = "handle_confirmation"
             /\ ~AwaitingConfirmation(u)']_vars

\* formatted_last_transaction = 'No transactions yet'
NoTransactionsYet == [head |-> "No transactions yet"]

\* the step handles a press of the check_balance button
InquiryStep(u) == last' = Event("button", u, <<>>, "check_balance")

\* C12: a greet from a new user creates a record with balance 0 and no last
\* transaction, and a balance inquiry on a record without last transaction
\* completes without error, reporting the balance and "No transactions yet"
C12_NewUserInquiry ==
    [][\A u \in UserIds :
          /\ (users[u] = None /\ last'.handler = "start" /\ last'.user = u)
             => users'[u] = Some([balance |-> 0, last_transaction |-> None])
          /\ (/\ InquiryStep(u)
              /\ users[u] # None
              /\ Val(users[u]).last_transaction = None)
             => /\ error' = ""
                /\ reply' = Reply("Your balance is", None, Some(Balance(u)),
                                  Some(NoTransactionsYet))]_vars

\* C13: two balance inquiries with no confirmed deposit or withdraw between
\* them (any other events may come between) have the same outcome: the same
\* balance and the same last-transaction text
C13_InquiryRepeatable ==
    [][\A u \in UserIds :
          (InquiryStep(u) /\ inquired[u] # None)
          => /\ reply' = Val(inquired[u]).reply
             /\ error' = Val(inquired[u]).error]_vars

C13_Witness ==
    \E u \in UserIds :
        /\ last = Event("button", u, <<>>, "check_balance")
        /\ inquired[u] # None
        /\ Val(inquired[u]).repeated
        /\ reply.msg = "Your balance is"
        /\ user_data[u].action # None

\* the session awaits an amount: an action is selected, the flag is off
AwaitingAmount(u) ==
    ~Truthy(user_data[u].confirming) /\ user_data[u].action # None

\* the text is not a number, or is a number that is not positive
InvalidAmountText(text) == PyInt(text) = None \/ Val(PyInt(text)) <= 0

C15_OtherTextReprompts ==
    [][\A u \in UserIds :
          (/\ AwaitingConfirmation(u)
           /\ last'.handler \in TextHandlers /\ last'.user = u
           /\ last'.text \notin {T_confirm, T_cancel})
          => /\ reply' = Say("Please respond with 'confirm' or 'cancel'.")
             /\ user_data' = user_data
             /\ users' = users]_vars

C15_Witness ==
    \E u \in UserIds :
        /\ AwaitingConfirmation(u)
        /\ last.handler = "handle_amount"
        /\ PyInt(last.text) # None /\ Val(PyInt(last.text)) > 0
        /\ PyInt(last.text) # user_data[u].amount
        /\ reply = Say("Please respond with 'confirm' or 'cancel'.")

\* C16: after 'cancel' is handled in AWAITING_CONFIRMATION the session is
\* IDLE with pending action and amount discarded; an IDLE session rejects
\* every text without change and is left only by selecting deposit or
\* withdraw
C16_CancelReturnsToIdle ==
    [][\A u \in UserIds :
          /\ CancelStep(u)
             => /\ Idle(u)'
                /\ user_data'[u].action = None
                /\ user_data'[u].amount = None
                /\ reply' = Say("Transaction cancelled.")
          /\ (Idle(u) /\ last'.handler \in TextHandlers /\ last'.user = u)
             => /\ Idle(u)'
                /\ user_data' = user_data
                /\ users' = users
                /\ reply'.msg \in {"Please start the transaction again.",
                                   "Please start a transaction first.", ""}
          /\ (Idle(u) /\ ~Idle(u)')
             => /\ last'.handler = "button"
                /\ last'.data \in {"deposit", "withdraw"}]_vars

C16_Witness ==
    \E u \in UserIds :
        /\ Idle(u)
        /\ user_data[u].confirming = Some(FALSE)
        /\ user_data[u].amount = None
        /\ last.handler = "handle_amount"
        /\ reply = Say("Please start the transaction again.")

\* 'Deposited' for a deposit, 'Withdrew' for a withdraw
Verb(action) == IF action = Some("deposit") THEN "Deposited" ELSE "Withdrew"

\* C17: every successful confirmed operation overwrites last_transaction
\* with a record of that operation: the verb of the applied action
\* ('Deposited' / 'Withdrew') and the applied amount
C17_LastTransactionRecordsOperation ==
    [][\A u \in UserIds :
          (ConfirmStep(u) /\ reply'.msg \in {"Deposited", "Withdrew"})
          => /\ users'[u] # None
             /\ Val(users'[u]).last_transaction # None
             /\ Val(Val(users'[u]).last_transaction).head =
                    [verb |-> Verb(user_data[u].action),
                     amount |-> Val(user_data[u].amount)]
             /\ reply'.msg = Verb(user_data[u].action)
             /\ \E now \in Timestamps :
                    Val(Val(users'[u]).last_transaction).on = DatetimeStr(now)]_vars

C17_Witness ==
    \E u \in UserIds :
        /\ last = Event("handle_confirmation", u, T_confirm, "")
        /\ reply.msg = "Withdrew"
        /\ users[u] # None
        /\ Val(users[u]).last_transaction # None
        /\ Val(Val(users[u]).last_transaction).head =
               [verb |-> "Withdrew", amount |-> Val(reply.amount)]
        /\ Balance(u) > 0

\* C18: with updates handled one at a time in arrival order, an accepted
\* amount entry leads to at most one ledger mutation: a mutation consumes the
\* accepted entry, and a 'confirm' that finds no unconsumed entry is
\* rejected without changing the record
C18_OneMutationPerEntry ==
    [][\A u \in UserIds :
          /\ (users[u] # None /\ users'[u] # users[u])
             => (entered[u] # None /\ entered'[u] = None)
          /\ (/\ entered[u] = None
              /\ last' = Event("handle_confirmation", u, T_confirm, ""))
             => /\ users' = users
                /\ reply' = Say("Please start a transaction first.")]_vars

C18_Witness ==
    \E u \in UserIds :
        /\ last = Event("handle_confirmation", u, T_confirm, "")
        /\ reply = Say("Please start a transaction first.")
        /\ entered[u] = None
        /\ user_data[u].confirming = Some(FALSE)
        /\ user_data[u].amount # None
        /\ users[u] # None /\ Balance(u) > 0

\* C20: a button selection changes at most the pending action: check_balance
\* leaves the session unchanged, deposit/withdraw overwrite only the action;
\* amount and flag are kept, so a selection made in AWAITING_CONFIRMATION
\* stays there with the amount entered before
C20_ButtonChangesOnlyAction ==
    [][\A u \in UserIds :
          (last'.handler = "button" /\ last'.user = u)
          => /\ user_data'[u].amount = user_data[u].amount
             /\ user_data'[u].confirming = user_data[u].confirming
             /\ AwaitingConfirmation(u) => AwaitingConfirmation(u)'
             /\ last'.data = "check_balance" => user_data' = user_data
             /\ last'.data \in {"deposit", "withdraw"}
                    => user_data'[u].action = Some(last'.data)
             /\ users' = users]_vars

C20_Witness ==
    \E u \in UserIds :
        /\ AwaitingConfirmation(u)
        /\ last = Event("button", u, <<>>, "withdraw")
        /\ user_data[u].action = Some("withdraw")
        /\ user_data[u].amount = Some(MaxAmount)
        /\ entered[u] = user_data[u].amount

\* C19: with handlers of one user interleaving at their awaits, every write
\* of the balance is computed from the balance persisted at that moment
\* (balance + amount for a deposit, balance - amount for a withdraw), so no
\* update is lost, and the balance is >= 0 in every reachable state
C19_NoLostUpdate ==
    [][\A u \in UserIds :
          /\ (users[u] # None /\ users'[u] # users[u])
             => /\ users'[u] # None
                /\ user_data[u].amount # None
                /\ Val(users'[u]).balance =
                       IF user_data[u].action = Some("deposit")
                       THEN Balance(u) + Val(user_data[u].amount)
                       ELSE Balance(u) - Val(user_data[u].amount)
          /\ users'[u] # None => Val(users'[u]).balance >= 0]_vars

C19_Witness ==
    \E u \in UserIds :
        /\ CopiesIn("reset_confirming", tasks[u]) = 2
        /\ Truthy(user_data[u].confirming)
        /\ user_data[u].action = Some("deposit")
        /\ user_data[u].amount # None
        /\ users[u] # None
        /\ Balance(u) = 2 * Val(user_data[u].amount)
        /\ \E now \in Timestamps :
               Val(users[u]).last_transaction =
                   Some(TransactionStr("Deposited", Val(user_data[u].amount), now))
====
